---- MODULE Spec2Model ----
(***************************************************************************)
(* Model of database/leveldb/mem_db.go: the in-memory key-value store      *)
(* MemDB, its iterator memDBIterator and its batch memDBBatch.             *)
(*                                                                         *)
(* Byte strings are sequences of small naturals.  An optional byte slice   *)
(* (Go's nil versus a non-nil slice) is None or Some(b).  A value is a     *)
(* positive number and NilVal is Go's nil slice, which is what a map read  *)
(* of a missing key returns.                                               *)
(***************************************************************************)
EXTENDS Integers, Sequences, FiniteSets, TLC

\* ---------------------------------------------------------------- bounds
\* Longest pending list a batch is given.
MaxOps == 3

\* ------------------------------------------------------------ input sets
Keys == {<<1>>, <<1, 1>>, <<2>>}
Vals == {1, 2}
\* Prefixes, start bounds and Seek targets.
Points == {<<>>, <<1>>, <<1, 1>>, <<2>>, <<3>>}
\* Keys the batch operations are drawn from, and the Set operations given
\* to a batch.
BatchKeys == {<<1>>, <<2>>}
BatchSets == {<<<<1>>, 1>>, <<<<1>>, 2>>, <<<<2>>, 1>>}
\* A key no batch touches, and the value it is set to directly.
OtherKey == <<1, 1>>
OtherVals == {1}

NilVal == 0
None == <<>>
Some(b) == <<b>>
opTypeSet == 1
opTypeDelete == 2
\* mtx when no process holds it.
Unlocked == "unlocked"

VARIABLES
    db,        \* MemDB.db: the map, a function from the present keys to values
    it,        \* the caller's memDBIterator: last, keys, db (attached), start
    ops,       \* memDBBatch.ops
    call,      \* history: the last completed call, its argument and result
    lastOp,    \* history: for every key the last Set/Delete applied to it
    ctor,      \* history: how the iterator was constructed
    snapKeys,  \* history: the store's key set when the iterator was constructed
    trav,      \* history: keys read after each true Next() since construction
    travOk,    \* history: only Next() was called since construction
    mtx,       \* MemDB.mtx: Unlocked, or the process that locked it
    pc,        \* concurrent callers: each process's position in its call
    loc,       \* concurrent callers: each process's call, arguments, result
    wr         \* concurrent Write: idx, the 1-based index of the next pending
               \* operation; history pre, the map when Write took the lock

vars == <<db, it, ops, call, lastOp, ctor, snapKeys, trav, travOk, mtx, pc, loc, wr>>
iterVars == <<it, ctor, snapKeys, trav, travOk>>
concVars == <<mtx, pc, loc, wr>>
histVars == <<call, lastOp, ctor, snapKeys, trav, travOk>>

\* ------------------------------------------------------- pure operators

\* bytes.Compare and Go's string comparison: lexicographic over raw bytes.
RECURSIVE BytesCompare(_, _)
BytesCompare(a, b) ==
    IF a = <<>> /\ b = <<>> THEN 0
    ELSE IF a = <<>> THEN -1
    ELSE IF b = <<>> THEN 1
    ELSE IF Head(a) < Head(b) THEN -1
    ELSE IF Head(a) > Head(b) THEN 1
    ELSE BytesCompare(Tail(a), Tail(b))

\* A nil slice compares as the empty slice.
StartBytes(start) == IF start = None THEN <<>> ELSE start[1]

\* Mutant: a key equal to the prefix is not matched.
HasPrefix_Strict(key, prefix) ==
    /\ Len(key) > Len(prefix)
    /\ SubSeq(key, 1, Len(prefix)) = prefix

HasPrefix(key, prefix) ==
    /\ Len(key) >= Len(prefix)
    /\ SubSeq(key, 1, Len(prefix)) = prefix

MapGet(m, key) == IF key \in DOMAIN m THEN m[key] ELSE NilVal

\* Mutant: a key that is present keeps its old value.
MapSet_KeepFirst(m, key, value) ==
    [x \in (DOMAIN m) \cup {key} |-> IF x \in DOMAIN m THEN m[x] ELSE value]

MapSet(m, key, value) ==
    [x \in (DOMAIN m) \cup {key} |-> IF x = key THEN value ELSE m[x]]

\* Mutant: the key is kept, with a nil value, instead of being removed.
MapDelete_Tombstone(m, key) ==
    [x \in (DOMAIN m) \cup {key} |-> IF x = key THEN NilVal ELSE m[x]]

MapDelete(m, key) == [x \in (DOMAIN m) \ {key} |-> m[x]]

\* The orders in which a range over a Go map may visit its keys.
Orders(S) ==
    {s \in [1..Cardinality(S) -> S] : \A i, j \in DOMAIN s : i # j => s[i] # s[j]}

RECURSIVE InsertSorted(_, _)
InsertSorted(s, x) ==
    IF s = <<>> THEN <<x>>
    ELSE IF BytesCompare(x, Head(s)) <= 0 THEN <<x>> \o s
    ELSE <<Head(s)>> \o InsertSorted(Tail(s), x)

\* Mutant: the keys stay in the order the map was ranged over.
SortStrings_Unsorted(s) == s

\* sort.Strings
RECURSIVE SortStrings(_)
SortStrings(s) ==
    IF s = <<>> THEN <<>> ELSE InsertSorted(SortStrings(Tail(s)), Head(s))

\* The loop of IteratorPrefix over the map, visiting keys in `order`.
RECURSIVE ScanPrefix(_, _)
ScanPrefix(order, prefix) ==
    IF order = <<>> THEN <<>>
    ELSE IF HasPrefix(Head(order), prefix)
         THEN <<Head(order)>> \o ScanPrefix(Tail(order), prefix)
         ELSE ScanPrefix(Tail(order), prefix)

\* The loop of getSortedKeys over the map, visiting keys in `order`.
RECURSIVE ScanStart(_, _)
ScanStart(order, start) ==
    IF order = <<>> THEN <<>>
    ELSE IF BytesCompare(Head(order), StartBytes(start)) < 0
         THEN ScanStart(Tail(order), start)
         ELSE <<Head(order)>> \o ScanStart(Tail(order), start)

\* The in-place reversal loop of getSortedKeys; i is the 0-based index.
RECURSIVE ReverseLoop(_, _)
ReverseLoop(keys, i) ==
    LET nkeys == Len(keys) IN
    IF i >= nkeys \div 2 THEN keys
    ELSE ReverseLoop([keys EXCEPT ![i + 1] = keys[nkeys - i],
                                  ![nkeys - i] = keys[i + 1]], i + 1)

getSortedKeys(order, start, reverse) ==
    LET keys == SortStrings(ScanStart(order, start)) IN
    IF reverse THEN ReverseLoop(keys, 0) ELSE keys

\* Mutant: Seek looks for the first key > point.
RECURSIVE SeekLoop_Strict(_, _, _)
SeekLoop_Strict(keys, point, i) ==
    IF i > Len(keys) THEN -1
    ELSE IF BytesCompare(keys[i], point) > 0 THEN i - 1
    ELSE SeekLoop_Strict(keys, point, i + 1)

\* The loop of Seek: the 0-based index of the first key >= point, or -1.
RECURSIVE SeekLoop(_, _, _)
SeekLoop(keys, point, i) ==
    IF i > Len(keys) THEN -1
    ELSE IF BytesCompare(keys[i], point) >= 0 THEN i - 1
    ELSE SeekLoop(keys, point, i + 1)

SeekFound(itr, point) == SeekLoop(itr.keys, point, 1) >= 0

\* Mutant: Seek stores the 1-based position of the key it found.
SeekIter_OffByOne(itr, point) ==
    IF SeekFound(itr, point)
    THEN [itr EXCEPT !.last = SeekLoop(itr.keys, point, 1) + 1]
    ELSE itr

\* Mutant: a failed Seek resets the cursor to before-first.
SeekIter_Reset(itr, point) ==
    IF SeekFound(itr, point)
    THEN [itr EXCEPT !.last = SeekLoop(itr.keys, point, 1)]
    ELSE [itr EXCEPT !.last = -1]

SeekIter(itr, point) ==
    IF SeekFound(itr, point)
    THEN [itr EXCEPT !.last = SeekLoop(itr.keys, point, 1)]
    ELSE itr

\* Mutant: Next() stops one key early.
NextOk_Early(itr) == ~(itr.last >= Len(itr.keys) - 2)

NextOk(itr) == ~(itr.last >= Len(itr.keys) - 1)

NextIter(itr) == IF NextOk(itr) THEN [itr EXCEPT !.last = itr.last + 1] ELSE itr

\* Key() indexes keys[last]; out of range it panics.
KeyValid(itr) == itr.last >= 0 /\ itr.last <= Len(itr.keys) - 1
KeyOf(itr) == itr.keys[itr.last + 1]

newMemDBIterator == [last |-> 0, keys |-> <<>>, db |-> FALSE, start |-> None]

\* Mutant: the constructor does not seek to the start bound.
newMemDBIteratorWithArgs_NoSeek(keys, start) ==
    [last |-> -1, keys |-> keys, db |-> TRUE, start |-> start]

newMemDBIteratorWithArgs(keys, start) ==
    LET itr == [last |-> -1, keys |-> keys, db |-> TRUE, start |-> start] IN
    IF start # None THEN SeekIter(itr, start[1]) ELSE itr

ApplyOp(m, op) ==
    IF op.opType = opTypeSet THEN MapSet(m, op.key, op.value)
    ELSE IF op.opType = opTypeDelete THEN MapDelete(m, op.key)
    ELSE m

\* Mutant: the pending list is applied last operation first.
RECURSIVE WriteLoop_Reversed(_, _, _)
WriteLoop_Reversed(m, pending, i) ==
    IF i > Len(pending) THEN m
    ELSE ApplyOp(WriteLoop_Reversed(m, pending, i + 1), pending[i])

\* The loop of Write over the pending list; i is the 1-based index.
RECURSIVE WriteLoop(_, _, _)
WriteLoop(m, pending, i) ==
    IF i > Len(pending) THEN m
    ELSE WriteLoop(ApplyOp(m, pending[i]), pending, i + 1)

\* ----------------------------------------------------- history operators

\* rep: the call is a write or a Next() that repeats the call completed just
\* before it.
RepOps == {"Set", "SetSync", "Delete", "DeleteSync", "Write", "Next"}
Called(name, args, result) ==
    [op |-> name, a |-> args, ret |-> result,
     rep |-> (name \in RepOps /\ call.op = name /\ call.a = args)]

FirstCall == [op |-> "NewMemDB", a |-> <<>>, ret |-> NilVal, rep |-> FALSE]

NoOp == [op |-> "none", v |-> NilVal]

\* The last pending operation on key k, if the list touches k.
Touches(pending, k) == \E i \in DOMAIN pending : pending[i].key = k
LastOn(pending, k) ==
    pending[CHOOSE i \in DOMAIN pending :
        /\ pending[i].key = k
        /\ \A j \in DOMAIN pending : pending[j].key = k => j <= i]

LastOpAfter(pending) ==
    [k \in Keys |->
        IF Touches(pending, k)
        THEN IF LastOn(pending, k).opType = opTypeSet
             THEN [op |-> "Set", v |-> LastOn(pending, k).value]
             ELSE [op |-> "Delete", v |-> NilVal]
        ELSE lastOp[k]]

\* ------------------------------------------------------------------ Init

Init ==
    /\ db = <<>>
    /\ it = newMemDBIterator
    /\ ops = <<>>
    /\ call = FirstCall
    /\ lastOp = [k \in Keys |-> NoOp]
    /\ ctor = [kind |-> "none", prefix |-> <<>>, start |-> None, reverse |-> FALSE]
    /\ snapKeys = {}
    /\ trav = <<>>
    /\ travOk = FALSE
    /\ mtx = Unlocked
    /\ pc = <<>>
    /\ loc = <<>>
    /\ wr = [idx |-> 0, pre |-> <<>>]

\* ------------------------------------------------ store, one caller

Get(key) ==
    /\ call' = Called("Get", <<key>>, MapGet(db, key))
    /\ UNCHANGED <<db, ops, lastOp, iterVars, concVars>>

\* Mutant: the iterator's keys are a live view of the map, not a copy.
Set_LiveKeys(key, value) ==
    /\ db' = MapSet(db, key, value)
    /\ lastOp' = [lastOp EXCEPT ![key] = [op |-> "Set", v |-> value]]
    /\ call' = Called("Set", <<key, value>>, NilVal)
    /\ it' = IF it.db
             THEN [it EXCEPT !.keys =
                      SortStrings(CHOOSE o \in Orders(DOMAIN db \cup {key}) : TRUE)]
             ELSE it
    /\ UNCHANGED <<ops, ctor, snapKeys, trav, travOk, concVars>>

Set(key, value) ==
    /\ db' = MapSet(db, key, value)
    /\ lastOp' = [lastOp EXCEPT ![key] = [op |-> "Set", v |-> value]]
    /\ call' = Called("Set", <<key, value>>, NilVal)
    /\ UNCHANGED <<ops, iterVars, concVars>>

SetSync(key, value) ==
    /\ db' = MapSet(db, key, value)
    /\ lastOp' = [lastOp EXCEPT ![key] = [op |-> "Set", v |-> value]]
    /\ call' = Called("SetSync", <<key, value>>, NilVal)
    /\ UNCHANGED <<ops, iterVars, concVars>>

Delete(key) ==
    /\ db' = MapDelete(db, key)
    /\ lastOp' = [lastOp EXCEPT ![key] = [op |-> "Delete", v |-> NilVal]]
    /\ call' = Called("Delete", <<key>>, NilVal)
    /\ UNCHANGED <<ops, iterVars, concVars>>

DeleteSync(key) ==
    /\ db' = MapDelete(db, key)
    /\ lastOp' = [lastOp EXCEPT ![key] = [op |-> "Delete", v |-> NilVal]]
    /\ call' = Called("DeleteSync", <<key>>, NilVal)
    /\ UNCHANGED <<ops, iterVars, concVars>>

\* Mutant: Close drops the contents of the store.
Close_Clearing ==
    /\ db' = <<>>
    /\ call' = Called("Close", <<>>, NilVal)
    /\ UNCHANGED <<ops, lastOp, iterVars, concVars>>

Close ==
    /\ call' = Called("Close", <<>>, NilVal)
    /\ UNCHANGED <<db, ops, lastOp, iterVars, concVars>>

MemDBPrint ==
    /\ call' = Called("Print", <<>>, NilVal)
    /\ UNCHANGED <<db, ops, lastOp, iterVars, concVars>>

Stats ==
    /\ call' = Called("Stats", <<>>, "memDB")
    /\ UNCHANGED <<db, ops, lastOp, iterVars, concVars>>

\* ------------------------------------------------ batch, one caller

NewBatch ==
    /\ ops' = <<>>
    /\ call' = Called("NewBatch", <<>>, NilVal)
    /\ UNCHANGED <<db, lastOp, iterVars, concVars>>

\* Mutant: the batch's Set writes through to the store.
BatchSet_Eager(key, value) ==
    /\ Len(ops) < MaxOps
    /\ ops' = Append(ops, [opType |-> opTypeSet, key |-> key, value |-> value])
    /\ db' = MapSet(db, key, value)
    /\ call' = Called("BatchSet", <<>>, NilVal)
    /\ UNCHANGED <<lastOp, iterVars, concVars>>

BatchSet(key, value) ==
    /\ Len(ops) < MaxOps
    /\ ops' = Append(ops, [opType |-> opTypeSet, key |-> key, value |-> value])
    /\ call' = Called("BatchSet", <<>>, NilVal)
    /\ UNCHANGED <<db, lastOp, iterVars, concVars>>

BatchDelete(key) ==
    /\ Len(ops) < MaxOps
    /\ ops' = Append(ops, [opType |-> opTypeDelete, key |-> key, value |-> NilVal])
    /\ call' = Called("BatchDelete", <<>>, NilVal)
    /\ UNCHANGED <<db, lastOp, iterVars, concVars>>

\* Mutant: Write empties the pending list once it has applied it.
Write_Clearing ==
    /\ db' = WriteLoop(db, ops, 1)
    /\ ops' = <<>>
    /\ lastOp' = LastOpAfter(ops)
    /\ call' = Called("Write", <<db>>, NilVal)
    /\ UNCHANGED <<iterVars, concVars>>

\* call.a keeps the map as it was when Write was invoked.
Write ==
    /\ db' = WriteLoop(db, ops, 1)
    /\ lastOp' = LastOpAfter(ops)
    /\ call' = Called("Write", <<db>>, NilVal)
    /\ UNCHANGED <<ops, iterVars, concVars>>

\* The store used by one caller.
Next ==
    \/ \E k \in Keys : Get(k)
    \/ \E k \in Keys, v \in Vals : Set(k, v)
    \/ \E k \in Keys, v \in Vals : SetSync(k, v)
    \/ \E k \in Keys : Delete(k)
    \/ \E k \in Keys : DeleteSync(k)
    \/ Close
    \/ MemDBPrint
    \/ Stats

Spec == Init /\ [][Next]_vars

\* The store and a batch used by one caller.
NextBatch ==
    \/ \E k \in Keys : Get(k)
    \/ \E v \in OtherVals : Set(OtherKey, v)
    \/ Delete(OtherKey)
    \/ NewBatch
    \/ \E kv \in BatchSets : BatchSet(kv[1], kv[2])
    \/ \E k \in BatchKeys : BatchDelete(k)
    \/ Write

SpecBatch == Init /\ [][NextBatch]_vars

\* ------------------------------------------------ iterator, one caller

ItNext ==
    /\ it' = NextIter(it)
    /\ call' = Called("Next", <<>>, NextOk(it))
    /\ trav' = IF travOk /\ NextOk(it) THEN Append(trav, KeyOf(NextIter(it))) ELSE trav
    /\ UNCHANGED <<db, ops, lastOp, ctor, snapKeys, travOk, concVars>>

Key ==
    /\ KeyValid(it)
    /\ call' = Called("Key", <<>>, KeyOf(it))
    /\ UNCHANGED <<db, ops, lastOp, iterVars, concVars>>

\* Mutant: Value() looks up the first captured key, not the current one.
Value_FirstKey ==
    /\ KeyValid(it)
    /\ it.db
    /\ call' = Called("Value", <<KeyOf(it)>>, MapGet(db, it.keys[1]))
    /\ UNCHANGED <<db, ops, lastOp, iterVars, concVars>>

\* Value() is it.db.Get(it.Key()).
Value ==
    /\ KeyValid(it)
    /\ it.db
    /\ call' = Called("Value", <<KeyOf(it)>>, MapGet(db, KeyOf(it)))
    /\ UNCHANGED <<db, ops, lastOp, iterVars, concVars>>

Seek(point) ==
    /\ it' = SeekIter(it, point)
    /\ call' = Called("Seek", <<point>>, SeekFound(it, point))
    /\ trav' = <<>>
    /\ travOk' = FALSE
    /\ UNCHANGED <<db, ops, lastOp, ctor, snapKeys, concVars>>

Release ==
    /\ it' = [it EXCEPT !.db = FALSE, !.keys = <<>>]
    /\ call' = Called("Release", <<>>, NilVal)
    /\ trav' = <<>>
    /\ travOk' = FALSE
    /\ UNCHANGED <<db, ops, lastOp, ctor, snapKeys, concVars>>

Error ==
    /\ call' = Called("Error", <<>>, NilVal)
    /\ UNCHANGED <<db, ops, lastOp, iterVars, concVars>>

\* The keys IteratorPrefix captures when the map is ranged over in `order`.
PrefixKeys(order, prefix) == SortStrings(ScanPrefix(order, prefix))

IteratorPrefixBody(kind, prefix) ==
    \E order \in Orders(DOMAIN db) :
        /\ it' = [newMemDBIterator EXCEPT !.db = TRUE, !.last = -1,
                                          !.keys = PrefixKeys(order, prefix)]
        /\ ctor' = [kind |-> kind, prefix |-> prefix, start |-> None, reverse |-> FALSE]
        /\ snapKeys' = DOMAIN db
        /\ trav' = <<>>
        /\ travOk' = TRUE
        /\ call' = Called(kind, <<prefix>>, NilVal)
        /\ UNCHANGED <<db, ops, lastOp, concVars>>

IteratorPrefix(prefix) == IteratorPrefixBody("IteratorPrefix", prefix)

Iterator == IteratorPrefixBody("Iterator", <<>>)

\* Mutant: the keys are also filtered by the prefix argument.
IteratorPrefixWithStart_Filtered(Prefix, start, isReverse) ==
    \E order \in Orders(DOMAIN db) :
        /\ it' = newMemDBIteratorWithArgs(
                     getSortedKeys(ScanPrefix(order, StartBytes(Prefix)), start, isReverse),
                     start)
        /\ ctor' = [kind |-> "IteratorPrefixWithStart", prefix |-> <<>>,
                    start |-> start, reverse |-> isReverse]
        /\ snapKeys' = DOMAIN db
        /\ trav' = <<>>
        /\ travOk' = TRUE
        /\ call' = Called("IteratorPrefixWithStart", <<Prefix, start, isReverse>>, NilVal)
        /\ UNCHANGED <<db, ops, lastOp, concVars>>

IteratorPrefixWithStart(Prefix, start, isReverse) ==
    \E order \in Orders(DOMAIN db) :
        /\ it' = newMemDBIteratorWithArgs(getSortedKeys(order, start, isReverse), start)
        /\ ctor' = [kind |-> "IteratorPrefixWithStart", prefix |-> <<>>,
                    start |-> start, reverse |-> isReverse]
        /\ snapKeys' = DOMAIN db
        /\ trav' = <<>>
        /\ travOk' = TRUE
        /\ call' = Called("IteratorPrefixWithStart", <<Prefix, start, isReverse>>, NilVal)
        /\ UNCHANGED <<db, ops, lastOp, concVars>>

\* A batch the caller built before the iterator is used.
IterBatches ==
    {<<[opType |-> opTypeSet, key |-> <<1, 1>>, value |-> 2],
       [opType |-> opTypeDelete, key |-> <<2>>, value |-> NilVal]>>}

\* Prefix arguments given to IteratorPrefixWithStart.
StartPrefixes == {None, Some(<<2>>)}
\* Start bounds: nil, empty, a key in the middle, past the largest key.
Starts == {None, Some(<<>>), Some(<<1, 1>>), Some(<<3>>)}
\* Values the single caller of the iterator specification sets directly.
IterVals == {1}

InitIter ==
    /\ db = <<>>
    /\ it = newMemDBIterator
    /\ ops \in IterBatches
    /\ call = FirstCall
    /\ lastOp = [k \in Keys |-> NoOp]
    /\ ctor = [kind |-> "none", prefix |-> <<>>, start |-> None, reverse |-> FALSE]
    /\ snapKeys = {}
    /\ trav = <<>>
    /\ travOk = FALSE
    /\ mtx = Unlocked
    /\ pc = <<>>
    /\ loc = <<>>
    /\ wr = [idx |-> 0, pre |-> <<>>]

NextIterSpec ==
    \/ \E k \in Keys, v \in IterVals : Set(k, v)
    \/ \E k \in Keys : Delete(k)
    \/ Write
    \/ Iterator
    \/ \E p \in Points : IteratorPrefix(p)
    \/ \E p \in StartPrefixes, s \in Starts, r \in BOOLEAN : IteratorPrefixWithStart(p, s, r)
    \/ ItNext
    \/ Key
    \/ Value
    \/ \E p \in Points : Seek(p)
    \/ Release
    \/ Error

SpecIter == InitIter /\ [][NextIterSpec]_vars

\* ------------------------------------------------ every handler, one caller
\* One caller with the store, a batch and an iterator, on few inputs.

AllSets == {<<<<1>>, 1>>}
AllSyncSets == {<<<<2>>, 2>>}
AllDeletes == {<<2>>}
AllSyncDeletes == {<<1>>}
AllBatchSets == {<<<<2>>, 1>>}
AllBatchDeletes == {<<1>>}
AllPoints == {<<>>, <<2>>}
AllStarts == {None, Some(<<2>>)}

NextAll ==
    \/ \E k \in AllDeletes : Get(k)
    \/ \E kv \in AllSets : Set(kv[1], kv[2])
    \/ \E kv \in AllSyncSets : SetSync(kv[1], kv[2])
    \/ \E k \in AllDeletes : Delete(k)
    \/ \E k \in AllSyncDeletes : DeleteSync(k)
    \/ Close
    \/ MemDBPrint
    \/ Stats
    \/ NewBatch
    \/ \E kv \in AllBatchSets : BatchSet(kv[1], kv[2])
    \/ \E k \in AllBatchDeletes : BatchDelete(k)
    \/ Write
    \/ Iterator
    \/ \E p \in AllPoints : IteratorPrefix(p)
    \/ \E s \in AllStarts, r \in BOOLEAN : IteratorPrefixWithStart(None, s, r)
    \/ ItNext
    \/ Key
    \/ Value
    \/ \E p \in AllPoints : Seek(p)
    \/ Release
    \/ Error

SpecAll == Init /\ [][NextAll]_vars

\* ------------------------------------------------ concurrent callers
\* Every handler that takes the lock is: the call (pc "lock"), mtx.Lock()
\* (pc "held"), its body, and the deferred mtx.Unlock() on return.  The
\* batch belongs to process BatchOwner and the iterator to IterOwner, as
\* neither object may be shared between goroutines.

Procs == {"p1", "p2"}
BatchOwner == "p1"
IterOwner == "p2"
ConcKeys == {<<1>>, <<2>>}
\* Direct writes of the concurrent callers.
ConcDirectSets == {<<<<2>>, 1>>}
ConcDirectDeletes == {<<1>>}
ConcSyncSets == {<<<<1>>, 2>>}
ConcSyncDeletes == {<<2>>}
\* Pending operations a concurrent batch is given.
ConcSets == {<<<<1>>, 1>>}
ConcDeletes == {<<2>>}
\* Longest pending list of a concurrent batch.
MaxConcOps == 2

Idle == [op |-> "none", a |-> <<>>, ret |-> NilVal]
Calling(name, args) == [op |-> name, a |-> args, ret |-> NilVal]

InitConc ==
    /\ db = <<>>
    /\ it = newMemDBIterator
    /\ ops = <<>>
    /\ call = FirstCall
    /\ lastOp = [k \in Keys |-> NoOp]
    /\ ctor = [kind |-> "none", prefix |-> <<>>, start |-> None, reverse |-> FALSE]
    /\ snapKeys = {}
    /\ trav = <<>>
    /\ travOk = FALSE
    /\ mtx = Unlocked
    /\ pc = [p \in Procs |-> "idle"]
    /\ loc = [p \in Procs |-> Idle]
    /\ wr = [idx |-> 0, pre |-> <<>>]

\* A caller invokes a handler that starts with db.mtx.Lock().
Invoke(p, name, args) ==
    /\ pc[p] = "idle"
    /\ pc' = [pc EXCEPT ![p] = "lock"]
    /\ loc' = [loc EXCEPT ![p] = Calling(name, args)]

\* Mutant: the lock does not exclude a second holder.
Lock_NotExclusive(p) ==
    /\ pc[p] = "lock"
    /\ mtx' = p
    /\ pc' = [pc EXCEPT ![p] = "held"]
    /\ wr' = IF loc[p].op = "Write" THEN [idx |-> 1, pre |-> db] ELSE wr
    /\ UNCHANGED <<db, it, ops, loc, histVars>>

\* sync.Mutex.Lock: blocks until the mutex is free.
Lock(p) ==
    /\ pc[p] = "lock"
    /\ mtx = Unlocked
    /\ mtx' = p
    /\ pc' = [pc EXCEPT ![p] = "held"]
    /\ wr' = IF loc[p].op = "Write" THEN [idx |-> 1, pre |-> db] ELSE wr
    /\ UNCHANGED <<db, it, ops, loc, histVars>>

\* The deferred sync.Mutex.Unlock, then the return.
Unlock(p) ==
    /\ pc[p] = "unlock"
    /\ mtx' = Unlocked
    /\ pc' = [pc EXCEPT ![p] = "idle"]
    /\ loc' = [loc EXCEPT ![p] = Idle]
    /\ wr' = IF loc[p].op = "Write" THEN [idx |-> 0, pre |-> <<>>] ELSE wr
    /\ UNCHANGED <<db, it, ops, histVars>>

\* Mutant: Get reads the map without taking the lock.
CallGet_NoLock(p, key) ==
    /\ pc[p] = "idle"
    /\ pc' = [pc EXCEPT ![p] = "held"]
    /\ loc' = [loc EXCEPT ![p] = Calling("Get", <<key>>)]
    /\ UNCHANGED <<db, it, ops, mtx, wr, histVars>>

CallGet(p, key) ==
    /\ Invoke(p, "Get", <<key>>)
    /\ UNCHANGED <<db, it, ops, mtx, wr, histVars>>

\* Value() is it.db.Get(it.Key()): Get takes the lock.
CallValue(p) ==
    /\ p = IterOwner
    /\ KeyValid(it)
    /\ it.db
    /\ Invoke(p, "Value", <<KeyOf(it)>>)
    /\ UNCHANGED <<db, it, ops, mtx, wr, histVars>>

DoGet(p) ==
    /\ pc[p] = "held"
    /\ loc[p].op \in {"Get", "Value"}
    /\ loc' = [loc EXCEPT ![p].ret = MapGet(db, loc[p].a[1])]
    /\ pc' = [pc EXCEPT ![p] = "unlock"]
    /\ UNCHANGED <<db, it, ops, mtx, wr, histVars>>

CallSet(p, key, value) ==
    /\ Invoke(p, "Set", <<key, value>>)
    /\ UNCHANGED <<db, it, ops, mtx, wr, histVars>>

DoSet(p) ==
    /\ pc[p] = "held"
    /\ loc[p].op = "Set"
    /\ db' = MapSet(db, loc[p].a[1], loc[p].a[2])
    /\ pc' = [pc EXCEPT ![p] = "unlock"]
    /\ UNCHANGED <<it, ops, mtx, loc, wr, histVars>>

CallDelete(p, key) ==
    /\ Invoke(p, "Delete", <<key>>)
    /\ UNCHANGED <<db, it, ops, mtx, wr, histVars>>

DoDelete(p) ==
    /\ pc[p] = "held"
    /\ loc[p].op = "Delete"
    /\ db' = MapDelete(db, loc[p].a[1])
    /\ pc' = [pc EXCEPT ![p] = "unlock"]
    /\ UNCHANGED <<it, ops, mtx, loc, wr, histVars>>

CallSetSync(p, key, value) ==
    /\ Invoke(p, "SetSync", <<key, value>>)
    /\ UNCHANGED <<db, it, ops, mtx, wr, histVars>>

DoSetSync(p) ==
    /\ pc[p] = "held"
    /\ loc[p].op = "SetSync"
    /\ db' = MapSet(db, loc[p].a[1], loc[p].a[2])
    /\ pc' = [pc EXCEPT ![p] = "unlock"]
    /\ UNCHANGED <<it, ops, mtx, loc, wr, histVars>>

CallDeleteSync(p, key) ==
    /\ Invoke(p, "DeleteSync", <<key>>)
    /\ UNCHANGED <<db, it, ops, mtx, wr, histVars>>

DoDeleteSync(p) ==
    /\ pc[p] = "held"
    /\ loc[p].op = "DeleteSync"
    /\ db' = MapDelete(db, loc[p].a[1])
    /\ pc' = [pc EXCEPT ![p] = "unlock"]
    /\ UNCHANGED <<it, ops, mtx, loc, wr, histVars>>

CallPrint(p) ==
    /\ Invoke(p, "Print", <<>>)
    /\ UNCHANGED <<db, it, ops, mtx, wr, histVars>>

\* Print ranges over the map and writes each pair; ret is what it wrote.
DoPrint(p) ==
    /\ pc[p] = "held"
    /\ loc[p].op = "Print"
    /\ pc' = [pc EXCEPT ![p] = "unlock"]
    /\ \E order \in Orders(DOMAIN db) :
           loc' = [loc EXCEPT ![p].ret =
                       [i \in DOMAIN order |-> <<order[i], db[order[i]]>>]]
    /\ UNCHANGED <<db, it, ops, mtx, wr, histVars>>

\* IteratorPrefix makes the iterator, then locks and ranges over the map.
CallIteratorPrefix(p, prefix) ==
    /\ p = IterOwner
    /\ Invoke(p, "IteratorPrefix", <<prefix>>)
    /\ it' = [newMemDBIterator EXCEPT !.db = TRUE, !.last = -1]
    /\ UNCHANGED <<db, ops, mtx, wr, histVars>>

DoIteratorPrefix(p) ==
    /\ pc[p] = "held"
    /\ loc[p].op = "IteratorPrefix"
    /\ \E order \in Orders(DOMAIN db) :
           it' = [it EXCEPT !.keys = PrefixKeys(order, loc[p].a[1])]
    /\ pc' = [pc EXCEPT ![p] = "unlock"]
    /\ UNCHANGED <<db, ops, mtx, loc, wr, histVars>>

CallIteratorPrefixWithStart(p, Prefix, start, isReverse) ==
    /\ p = IterOwner
    /\ Invoke(p, "IteratorPrefixWithStart", <<Prefix, start, isReverse>>)
    /\ UNCHANGED <<db, it, ops, mtx, wr, histVars>>

\* Mutant: the constructor's Seek takes the store lock, as Value() does.
DoIteratorPrefixWithStart_Relock(p) ==
    /\ pc[p] = "held"
    /\ loc[p].op = "IteratorPrefixWithStart"
    /\ \E order \in Orders(DOMAIN db) :
           it' = newMemDBIteratorWithArgs(
                     getSortedKeys(order, loc[p].a[2], loc[p].a[3]), loc[p].a[2])
    /\ pc' = [pc EXCEPT ![p] = IF loc[p].a[2] # None THEN "lock" ELSE "unlock"]
    /\ UNCHANGED <<db, ops, mtx, loc, wr, histVars>>

\* getSortedKeys and newMemDBIteratorWithArgs, with its Seek, run under the
\* lock; Seek reads only the captured keys and takes no lock.
DoIteratorPrefixWithStart(p) ==
    /\ pc[p] = "held"
    /\ loc[p].op = "IteratorPrefixWithStart"
    /\ \E order \in Orders(DOMAIN db) :
           it' = newMemDBIteratorWithArgs(
                     getSortedKeys(order, loc[p].a[2], loc[p].a[3]), loc[p].a[2])
    /\ pc' = [pc EXCEPT ![p] = "unlock"]
    /\ UNCHANGED <<db, ops, mtx, loc, wr, histVars>>

\* Next() on the owner's iterator: no lock, no store access.
CNext(p) ==
    /\ p = IterOwner
    /\ pc[p] = "idle"
    /\ NextOk(it)
    /\ it' = NextIter(it)
    /\ UNCHANGED <<db, ops, concVars, histVars>>

CBatchSet(p, key, value) ==
    /\ p = BatchOwner
    /\ pc[p] = "idle"
    /\ Len(ops) < MaxConcOps
    /\ ops' = Append(ops, [opType |-> opTypeSet, key |-> key, value |-> value])
    /\ UNCHANGED <<db, it, concVars, histVars>>

CBatchDelete(p, key) ==
    /\ p = BatchOwner
    /\ pc[p] = "idle"
    /\ Len(ops) < MaxConcOps
    /\ ops' = Append(ops, [opType |-> opTypeDelete, key |-> key, value |-> NilVal])
    /\ UNCHANGED <<db, it, concVars, histVars>>

CNewBatch(p) ==
    /\ p = BatchOwner
    /\ pc[p] = "idle"
    /\ ops' = <<>>
    /\ UNCHANGED <<db, it, concVars, histVars>>

CallWrite(p) ==
    /\ p = BatchOwner
    /\ Invoke(p, "Write", <<>>)
    /\ UNCHANGED <<db, it, ops, mtx, wr, histVars>>

\* One iteration of Write's loop over the pending list.
WriteStep(p) ==
    /\ pc[p] = "held"
    /\ loc[p].op = "Write"
    /\ wr.idx <= Len(ops)
    /\ db' = ApplyOp(db, ops[wr.idx])
    /\ wr' = [wr EXCEPT !.idx = wr.idx + 1]
    /\ UNCHANGED <<it, ops, mtx, pc, loc, histVars>>

\* Write's loop is over.
WriteDone(p) ==
    /\ pc[p] = "held"
    /\ loc[p].op = "Write"
    /\ wr.idx > Len(ops)
    /\ pc' = [pc EXCEPT ![p] = "unlock"]
    /\ UNCHANGED <<db, it, ops, mtx, loc, wr, histVars>>

NextConc ==
    \E p \in Procs :
        \/ Lock(p)
        \/ Unlock(p)
        \/ \E k \in ConcKeys : CallGet(p, k)
        \/ CallValue(p)
        \/ DoGet(p)
        \/ \E kv \in ConcDirectSets : CallSet(p, kv[1], kv[2])
        \/ DoSet(p)
        \/ \E k \in ConcDirectDeletes : CallDelete(p, k)
        \/ DoDelete(p)
        \/ \E kv \in ConcSyncSets : CallSetSync(p, kv[1], kv[2])
        \/ DoSetSync(p)
        \/ \E k \in ConcSyncDeletes : CallDeleteSync(p, k)
        \/ DoDeleteSync(p)
        \/ CallPrint(p)
        \/ DoPrint(p)
        \/ CallIteratorPrefix(p, <<>>)
        \/ DoIteratorPrefix(p)
        \/ CallIteratorPrefixWithStart(p, None, Some(<<1>>), TRUE)
        \/ DoIteratorPrefixWithStart(p)
        \/ CNext(p)
        \/ \E kv \in ConcSets : CBatchSet(p, kv[1], kv[2])
        \/ \E k \in ConcDeletes : CBatchDelete(p, k)
        \/ CNewBatch(p)
        \/ CallWrite(p)
        \/ WriteStep(p)
        \/ WriteDone(p)

SpecConc == InitConc /\ [][NextConc]_vars

\* What a handler does between db.mtx.Lock() and the deferred Unlock,
\* and the Unlock itself.
Body(p) ==
    \/ Unlock(p)
    \/ DoGet(p)
    \/ DoSet(p)
    \/ DoDelete(p)
    \/ DoIteratorPrefix(p)
    \/ DoIteratorPrefixWithStart(p)
    \/ WriteStep(p)
    \/ WriteDone(p)

\* A goroutine that can run does run, and sync.Mutex hands the lock to a
\* waiter that keeps finding it free (its starvation mode).
FairKeys == {<<2>>}
NextConcFair ==
    \E p \in Procs :
        \/ Lock(p)
        \/ Body(p)
        \/ \E k \in FairKeys : CallGet(p, k)
        \/ CallValue(p)
        \/ \E kv \in ConcDirectSets : CallSet(p, kv[1], kv[2])
        \/ \E k \in ConcDirectDeletes : CallDelete(p, k)
        \/ CallIteratorPrefix(p, <<>>)
        \/ CallIteratorPrefixWithStart(p, None, Some(<<1>>), TRUE)
        \/ CNext(p)
        \/ \E kv \in ConcSets : CBatchSet(p, kv[1], kv[2])
        \/ CallWrite(p)

SpecConcFair ==
    /\ InitConc
    /\ [][NextConcFair]_vars
    /\ \A p \in Procs : WF_vars(Body(p)) /\ SF_vars(Lock(p))

\* ---------------------------------------------------------------- claims

Range(s) == {s[i] : i \in DOMAIN s}

\* a < b in lexicographic byte order.
BytesLess(a, b) ==
    \E n \in 0..Len(a) :
        /\ n <= Len(b)
        /\ \A i \in 1..n : a[i] = b[i]
        /\ \/ n = Len(a) /\ n < Len(b)
           \/ n < Len(a) /\ n < Len(b) /\ a[n + 1] < b[n + 1]

BytesLeq(a, b) == a = b \/ BytesLess(a, b)

StrictAsc(s) == \A i, j \in DOMAIN s : i < j => BytesLess(s[i], s[j])
StrictDesc(s) == \A i, j \in DOMAIN s : i < j => BytesLess(s[j], s[i])

IsBytePrefix(p, k) == Len(p) <= Len(k) /\ \A i \in 1..Len(p) : k[i] = p[i]

SetOps == {"Set", "SetSync"}
DeleteOps == {"Delete", "DeleteSync"}

\* C1: after any sequence of Set, SetSync, Delete, DeleteSync (and batch
\* writes), Get(k) returns the value of the last Set on k when the last
\* operation on k was a Set, and nil (absent) when the last operation on k
\* was a Delete or k was never set.
C1_LastWriterWins ==
    call.op = "Get" =>
        call.ret = (IF lastOp[call.a[1]].op = "Set"
                    THEN lastOp[call.a[1]].v ELSE NilVal)

C1_Witness ==
    /\ call.op = "Get"
    /\ lastOp[call.a[1]].op = "Set"
    /\ call.ret = 2
    /\ \E k \in Keys : lastOp[k].op = "Delete"

\* C7: after Write() every key the batch touches reads as the last pending
\* operation on it says (the value of a Set, absent after a Delete), and
\* every other key reads as it did when Write() was invoked.
C7_WriteInOrder ==
    call.op = "Write" =>
        \A k \in Keys :
            MapGet(db, k) =
                IF Touches(ops, k)
                THEN IF LastOn(ops, k).opType = opTypeSet
                     THEN LastOn(ops, k).value ELSE NilVal
                ELSE MapGet(call.a[1], k)

\* Set(x,1), Delete(x), Set(x,2), Write() with another key already stored.
C7_Witness ==
    /\ call.op = "Write"
    /\ ops = <<[opType |-> opTypeSet, key |-> <<1>>, value |-> 1],
               [opType |-> opTypeDelete, key |-> <<1>>, value |-> NilVal],
               [opType |-> opTypeSet, key |-> <<1>>, value |-> 2]>>
    /\ MapGet(db, <<1>>) = 2
    /\ MapGet(db, <<1, 1>>) = 1

\* C10: a Delete(k) that repeats the Delete(k) just before it leaves the map
\* as it is, a Delete of an absent key leaves the map as it is, and a
\* Set(k,v) that repeats the Set(k,v) just before it leaves the map as it is.
C10_Idempotent ==
    [][/\ (call'.op \in DeleteOps /\ call.op \in DeleteOps /\ call'.a = call.a)
              => db' = db
       /\ (call'.op \in DeleteOps /\ call'.a[1] \notin DOMAIN db) => db' = db
       /\ (call'.op \in SetOps /\ call.op \in SetOps /\ call'.a = call.a)
              => db' = db]_vars

C10_Witness ==
    /\ call.op = "Delete"
    /\ call.rep
    /\ DOMAIN db # {}
    /\ call.a[1] \notin DOMAIN db

\* C3: the keys read after each true Next() of an iterator built by
\* Iterator() are strictly ascending keys of the store at construction, and
\* when Next() returns false every such key has been read.
C3_FullTraversal ==
    (ctor.kind = "Iterator" /\ travOk /\ call.op = "Next") =>
        /\ StrictAsc(trav)
        /\ Range(trav) \subseteq snapKeys
        /\ call.ret = FALSE => Range(trav) = snapKeys

C3_Witness ==
    /\ ctor.kind = "Iterator"
    /\ travOk
    /\ call.op = "Next"
    /\ call.ret = FALSE
    /\ Len(trav) = 3

\* The store keys at construction that are >= the start bound.
FromStart(start) == {k \in snapKeys : BytesLeq(start, k)}

\* C4: the keys read after each true Next() of an iterator built by
\* IteratorPrefixWithStart with a non-nil start are store keys >= start,
\* strictly ascending (strictly descending when reverse), and when Next()
\* returns false every store key >= start has been read.
C4_StartTraversal ==
    (/\ ctor.kind = "IteratorPrefixWithStart"
     /\ ctor.start # None
     /\ travOk
     /\ call.op = "Next") =>
        /\ IF ctor.reverse THEN StrictDesc(trav) ELSE StrictAsc(trav)
        /\ Range(trav) \subseteq FromStart(ctor.start[1])
        /\ call.ret = FALSE => Range(trav) = FromStart(ctor.start[1])

\* C5: the keys IteratorPrefix(p) captures are strictly ascending and are
\* exactly the store keys with byte-prefix p; all keys when p is empty.
C5_PrefixFilter ==
    call.op = "IteratorPrefix" =>
        /\ StrictAsc(it.keys)
        /\ Range(it.keys) = {k \in DOMAIN db : IsBytePrefix(call.a[1], k)}
        /\ call.a[1] = <<>> => Range(it.keys) = DOMAIN db

C5_Witness ==
    /\ call.op = "IteratorPrefix"
    /\ call.a[1] = <<1>>
    /\ it.keys = <<<<1>>, <<1, 1>>>>
    /\ DOMAIN db = Keys

CtorOps == {"Iterator", "IteratorPrefix", "IteratorPrefixWithStart"}

\* C6: no call other than a constructor or Release changes the captured key
\* sequence of an attached iterator; the captured keys, and the keys a
\* traversal reads, are keys of the store at construction.
C6_SnapshotStable ==
    /\ [][(it.db /\ call'.op \notin CtorOps \cup {"Release"})
              => it'.keys = it.keys]_vars
    /\ [](it.db => /\ Range(it.keys) \subseteq snapKeys
                   /\ Range(trav) \subseteq Range(it.keys))

\* A key inserted since construction is not captured; one deleted since is.
C6_Witness ==
    /\ it.db
    /\ ctor.kind = "Iterator"
    /\ Range(it.keys) = snapKeys
    /\ \E k \in DOMAIN db : k \notin Range(it.keys)
    /\ \E k \in Range(it.keys) : k \notin DOMAIN db
    /\ call.op = "Next"
    /\ call.ret = FALSE
    /\ Range(trav) = snapKeys

\* C8: a Seek(target) with no captured key >= target returns false and
\* leaves the iterator as it was, so a following Next() gives what it would
\* have given without the Seek.
C8_SeekMiss ==
    [][(/\ call'.op = "Seek"
        /\ \A i \in DOMAIN it.keys : BytesLess(it.keys[i], call'.a[1]))
           => /\ call'.ret = FALSE
              /\ it' = it
              /\ NextOk(it') = NextOk(it)
              /\ NextIter(it') = NextIter(it)]_vars

C8_Witness ==
    /\ call.op = "Seek"
    /\ call.ret = FALSE
    /\ it.db
    /\ it.last = 1
    /\ Len(it.keys) = 3

\* C9: Next() with the cursor before the final captured key advances it by
\* one and returns true; otherwise it returns false and leaves the iterator
\* as it was, and a Next() right after a false Next() returns false too.
C9_NextStep ==
    [][call'.op = "Next" =>
          /\ IF it.last < Len(it.keys) - 1
             THEN call'.ret = TRUE /\ it'.last = it.last + 1 /\ it'.keys = it.keys
             ELSE call'.ret = FALSE /\ it' = it
          /\ (call.op = "Next" /\ call.ret = FALSE) => call'.ret = FALSE]_vars

C9_Witness ==
    /\ call.op = "Next"
    /\ call.rep
    /\ call.ret = FALSE
    /\ Len(it.keys) = 2
    /\ it.last = 1

ReadOps == {"Get", "Value", "IteratorPrefix", "IteratorPrefixWithStart"}

\* A Write() holds the lock: it has applied none, some or all of its list.
WriteInFlight ==
    /\ pc[BatchOwner] \in {"held", "unlock"}
    /\ loc[BatchOwner].op = "Write"

\* The map is neither as it was before the batch nor as it is after it.
PartlyApplied ==
    /\ WriteInFlight
    /\ db # wr.pre
    /\ db # WriteLoop(wr.pre, ops, 1)

\* C2: whenever a Get (also the Get of Value()) or an iterator constructor
\* reads the map while a Write() is under way, the map it reads is the map
\* as it was before the batch or the map with the whole batch applied.
C2_BatchAtomic ==
    [][\A p \in Procs :
           (pc[p] = "held" /\ pc'[p] = "unlock" /\ loc[p].op \in ReadOps)
               => ~PartlyApplied]_vars

\* A reader is waiting for the lock while the batch is partly applied.
C2_Witness ==
    /\ PartlyApplied
    /\ \E p \in Procs : pc[p] = "lock" /\ loc[p].op = "Get"
    /\ Len(ops) = 2
    /\ wr.idx = 2

\* What the store holds for key k now, by the last operation applied to k.
LiveValue(k) == IF lastOp[k].op = "Set" THEN lastOp[k].v ELSE NilVal

\* C11: Value() of a positioned iterator returns what the store holds for
\* the current captured key when it is called: the value of the last Set on
\* it, also one made after the iterator was constructed, and nil when the
\* key was deleted since, while Key() still returns that key.
C11_ValueLive ==
    call.op = "Value" =>
        /\ KeyValid(it)
        /\ KeyOf(it) = call.a[1]
        /\ call.ret = LiveValue(call.a[1])

\* The current key was captured, then overwritten by the batch, and another
\* captured key was deleted.
C11_Witness ==
    /\ call.op = "Value"
    /\ call.a[1] = <<1, 1>>
    /\ call.ret = 2
    /\ snapKeys = Keys
    /\ Range(it.keys) = Keys
    /\ <<2>> \notin DOMAIN db

\* The 1-based positions of the captured keys that are >= target.
AtLeast(keys, target) == {i \in DOMAIN keys : BytesLeq(target, keys[i])}
Least(S) == CHOOSE i \in S : \A j \in S : i <= j

\* C16: a Seek(target) with some captured key >= target returns true and
\* puts the cursor on the first such key in the stored order of the captured
\* sequence, forward or reversed, wherever the cursor was.
C16_SeekHit ==
    [][(call'.op = "Seek" /\ AtLeast(it.keys, call'.a[1]) # {})
           => /\ call'.ret = TRUE
              /\ it'.last = Least(AtLeast(it.keys, call'.a[1])) - 1
              /\ it'.keys = it.keys]_vars

\* On the reversed keys 2, 11, 1 a Seek(11) stops at index 0, on key 2.
C16_Witness ==
    /\ call.op = "Seek"
    /\ call.a[1] = <<1, 1>>
    /\ call.ret = TRUE
    /\ ctor.reverse
    /\ it.keys = <<<<2>>, <<1, 1>>, <<1>>>>
    /\ it.last = 0

\* C17: right after Iterator(), IteratorPrefix(p) or IteratorPrefixWithStart
\* with a nil start the cursor is -1; after IteratorPrefixWithStart with a
\* non-nil start it is 0 when some store key is >= start and -1 otherwise.
C17_InitialCursor ==
    /\ call.op \in {"Iterator", "IteratorPrefix"} => it.last = -1
    /\ call.op = "IteratorPrefixWithStart" =>
           it.last = IF /\ call.a[2] # None
                        /\ \E k \in DOMAIN db : BytesLeq(call.a[2][1], k)
                     THEN 0 ELSE -1

C17_Witness ==
    /\ call.op = "IteratorPrefixWithStart"
    /\ call.a[2] = Some(<<1, 1>>)
    /\ DOMAIN db = Keys
    /\ it.last = 0
    /\ Len(it.keys) = 2

\* C19: what IteratorPrefixWithStart(prefix, start, reverse) returns is
\* fixed by the store, start and reverse alone: the store keys >= start
\* (all keys for a nil start), ascending or descending, and the cursor of
\* C17, whatever the prefix; keys without the prefix are captured too.
C19_PrefixIgnored ==
    call.op = "IteratorPrefixWithStart" =>
        /\ Range(it.keys) = {k \in DOMAIN db : BytesLeq(StartBytes(call.a[2]), k)}
        /\ IF call.a[3] THEN StrictDesc(it.keys) ELSE StrictAsc(it.keys)
        /\ it.last = IF call.a[2] # None /\ it.keys # <<>> THEN 0 ELSE -1
        /\ it.db
        /\ it.start = call.a[2]

\* With prefix 2 the keys 11 and 2 are captured from start 11.
C19_Witness ==
    /\ call.op = "IteratorPrefixWithStart"
    /\ call.a[1] = Some(<<2>>)
    /\ call.a[2] = Some(<<1, 1>>)
    /\ it.keys = <<<<1, 1>>, <<2>>>>

\* C20: an attached iterator has -1 <= last <= len(keys)-1, and right after
\* a Next() or Seek() that returned true Key() indexes a captured key.
C20_CursorInRange ==
    /\ it.db => (it.last >= -1 /\ it.last <= Len(it.keys) - 1)
    /\ (call.op \in {"Next", "Seek"} /\ call.ret = TRUE) =>
           (it.last >= 0 /\ it.last + 1 \in DOMAIN it.keys)

C20_Witness ==
    /\ call.op = "Seek"
    /\ call.ret = TRUE
    /\ it.db
    /\ it.last = Len(it.keys) - 1
    /\ it.last = 2

\* C12: the batch's Set and Delete append one operation to the pending
\* list, keep what was pending, and leave the store as it was; the store
\* sees the operation only when Write runs.
C12_BatchAppendOnly ==
    [][call'.op \in {"BatchSet", "BatchDelete"}
           => /\ db' = db
              /\ Len(ops') = Len(ops) + 1
              /\ SubSeq(ops', 1, Len(ops)) = ops
              /\ ops'[Len(ops')].opType =
                     IF call'.op = "BatchSet" THEN opTypeSet ELSE opTypeDelete]_vars

\* A Set of key 2 is pending and key 2 is not in the store.
C12_Witness ==
    /\ call.op = "BatchSet"
    /\ Len(ops) = 2
    /\ ops[2].opType = opTypeSet
    /\ ops[2].key = <<2>>
    /\ ops[1].opType = opTypeDelete
    /\ <<2>> \notin DOMAIN db
    /\ <<1>> \in DOMAIN db

\* C18: Write() right after Write() on the same batch leaves the store as
\* the first Write left it, and Write never changes the pending list.
C18_WriteTwice ==
    [][call'.op = "Write"
           => /\ ops' = ops
              /\ call.op = "Write" => db' = db]_vars

\* A batch of three operations with a Set and a Delete written again.
C18_Witness ==
    /\ call.op = "Write"
    /\ call.rep
    /\ call.a[1] = db
    /\ Len(ops) = 3
    /\ \E i \in DOMAIN ops : ops[i].opType = opTypeSet
    /\ \E i \in DOMAIN ops : ops[i].opType = opTypeDelete
    /\ db # <<>>

\* The calls that may change the mapping, and the calls C14 names as
\* leaving it alone.
Mutators == {"Set", "SetSync", "Delete", "DeleteSync", "Write"}
FrameOps == {"Get", "Close", "Stats", "Print", "Iterator", "IteratorPrefix",
             "IteratorPrefixWithStart", "Next", "Key", "Value", "Seek",
             "Release", "Error"}

\* C14: Get, Close, Stats, Print, the iterator constructors and the
\* iterator's Next, Key, Value, Seek, Release and Error leave the mapping
\* as it was; a step that changes the mapping is a Set, SetSync, Delete,
\* DeleteSync or Batch.Write.
C14_Frame ==
    [][/\ call'.op \in FrameOps => db' = db
       /\ db' # db => call'.op \in Mutators]_vars

\* Close on a store of two keys with a live iterator and a pending batch.
C14_Witness ==
    /\ call.op = "Close"
    /\ DOMAIN db = BatchKeys
    /\ it.db
    /\ Len(it.keys) = 2
    /\ ops # <<>>

\* The steps that read or write the map.
MapAccess(p) ==
    \/ DoGet(p)
    \/ DoSet(p)
    \/ DoDelete(p)
    \/ DoSetSync(p)
    \/ DoDeleteSync(p)
    \/ DoPrint(p)
    \/ DoIteratorPrefix(p)
    \/ DoIteratorPrefixWithStart(p)
    \/ WriteStep(p)
InHandlerBody(p) == pc[p] \in {"held", "unlock"}

\* C15: every step that reads or writes the map is taken by the process
\* that holds the lock, the map changes in no other step, and at most one
\* process is between its Lock and its Unlock at any time.
C15_UnderLock ==
    /\ [](\A p \in Procs : InHandlerBody(p) => mtx = p)
    /\ [](Cardinality({p \in Procs : InHandlerBody(p)}) <= 1)
    /\ [][/\ \A p \in Procs : MapAccess(p) => (mtx = p /\ mtx' = p)
          /\ db' # db => \E p \in Procs : mtx = p /\ MapAccess(p)]_vars

\* One process has printed the map under the lock while the other waits
\* for the lock to read it.
C15_Witness ==
    /\ pc[BatchOwner] = "unlock"
    /\ loc[BatchOwner].op = "Print"
    /\ Len(loc[BatchOwner].ret) = 2
    /\ mtx = BatchOwner
    /\ pc[IterOwner] = "lock"
    /\ loc[IterOwner].op = "Get"

\* C13: callers of Get, Set, Delete, the iterator constructors, Value()
\* and Batch.Write() never deadlock: no process waits for a lock it holds,
\* whenever a call is in progress some process can take a step, and under
\* fair scheduling every call in progress returns.
C13_Completes ==
    /\ [](\A p \in Procs : pc[p] = "lock" => mtx # p)
    /\ []((\E p \in Procs : pc[p] # "idle")
             => \E q \in Procs : ENABLED (Lock(q) \/ Body(q)))
    /\ \A p \in Procs : (pc[p] # "idle") ~> (pc[p] = "idle")

\* IteratorPrefixWithStart with a start bound has built its iterator under
\* the lock while a Write() waits for the lock.
C13_Witness ==
    /\ pc[IterOwner] = "unlock"
    /\ loc[IterOwner].op = "IteratorPrefixWithStart"
    /\ mtx = IterOwner
    /\ it.start # None
    /\ it.last = 0
    /\ pc[BatchOwner] = "lock"
    /\ loc[BatchOwner].op = "Write"

====
